---- MODULE Spec2Model ----
(***************************************************************************)
(* Model of the Aseko integration's polling core:                          *)
(*   api.py          AsekoApiClient._request / get_unit_serials /          *)
(*                   get_units / get_unit                                  *)
(*   coordinator.py  AsekoDataUpdateCoordinator._async_update_data         *)
(* One refresh cycle is a chain of event-loop steps: the page requests of  *)
(* get_unit_serials, the completions of the concurrently launched detail   *)
(* fetches, and the step in which asyncio.gather hands the collected       *)
(* outcomes back to get_units, which classifies them and returns to (or    *)
(* raises into) the coordinator.                                           *)
(***************************************************************************)
EXTENDS Integers, Sequences, FiniteSets, TLC

(***************************************************************************)
(* Bounds of the model.                                                    *)
(***************************************************************************)
\* page size requested by get_unit_serials (api.py:136 uses 100), scaled down
Limit == 2
\* most list entries the server hands out during one scan of the listing
MaxUnits == 3
\* largest totalItems the server reports
MaxTotal == MaxUnits + 1

(***************************************************************************)
(* Serial numbers.  Python compares the strings lexicographically; Rank is *)
(* that order on the identifiers of the model.                             *)
(***************************************************************************)
Ids == {"A", "B", "C"}

Rank(s) == CASE s = "A" -> 1 [] s = "B" -> 2 [] s = "C" -> 3

\* the page item lists a server can send: up to n identifiers, any order,
\* repeats allowed
RECURSIVE SeqsUpTo(_)
SeqsUpTo(n) ==
    IF n = 0 THEN {<<>>}
    ELSE LET shorter == SeqsUpTo(n - 1)
         IN  shorter \cup {Append(s, id) : s \in {t \in shorter : Len(t) = n - 1}, id \in Ids}

PageItems == SeqsUpTo(Limit)

(***************************************************************************)
(* Exceptions.  An exception value records its class, where it was raised  *)
(* and a number: the position of the detail fetch or the page number for   *)
(* an exception of _request, the count put in the message for an           *)
(* aggregate exception of get_units.                                       *)
(***************************************************************************)
Exc(kind, origin, n) == [kind |-> kind, origin |-> origin, n |-> n]

NoExc == Exc("none", "none", 0)

\* class hierarchy of api.py:17-30; KeyError is what _parse_unit raises on a
\* body without serialNumber; ClientResponseError and ClientConnectionError
\* are the HTTP client's own exceptions (api.py:11)
Parent(kind) ==
    CASE kind = "AuthError"             -> "ApiError"
      [] kind = "ConnectionError"       -> "ApiError"
      [] kind = "NotFoundError"         -> "ApiError"
      [] kind = "ApiError"              -> "Exception"
      [] kind = "KeyError"              -> "Exception"
      [] kind = "ClientResponseError"   -> "Exception"
      [] kind = "ClientConnectionError" -> "Exception"
      [] OTHER                          -> "object"

IsInstance(kind, cls) ==
    \/ kind = cls
    \/ Parent(kind) = cls
    \/ Parent(Parent(kind)) = cls

(***************************************************************************)
(* _request: what one HTTP exchange turns into.  The outcome of the        *)
(* exchange is the response status, or "transport" when the exchange       *)
(* itself fails (DNS, timeout, TLS, ...).  "ok" stands for the decoded     *)
(* body being returned.  "300" is a redirection status that the HTTP       *)
(* client hands back instead of following, with a JSON body.               *)
(***************************************************************************)
HttpOutcomes == {"200", "300", "401", "403", "404", "500", "transport"}

\* the body of the try statement, lines 91-102: what it raises, or "ok"
\* when it returns the decoded body.  raise_for_status raises
\* ClientResponseError on a status of 400 or above.
Attempt(outcome) ==
    CASE outcome \in {"401", "403"} -> "AuthError"
      [] outcome = "404"            -> "NotFoundError"
      [] outcome = "500"            -> "ClientResponseError"
      [] outcome \in {"200", "300"} -> "ok"
      [] OTHER                      -> "ClientConnectionError"

\* variant of ExceptClauses: without the clause that re-raises AsekoApiError
WrapEverything(raised) ==
    IF raised = "ok" THEN "ok"
    ELSE IF IsInstance(raised, "ClientResponseError") THEN "ApiError"
    ELSE IF IsInstance(raised, "Exception") THEN "ConnectionError"
    ELSE raised

\* the except clauses, lines 103-107, in their order
ExceptClauses(raised) ==
    IF raised = "ok" THEN "ok"
    ELSE IF IsInstance(raised, "ClientResponseError") THEN "ApiError"
    ELSE IF IsInstance(raised, "ApiError") THEN raised
    ELSE IF IsInstance(raised, "Exception") THEN "ConnectionError"
    ELSE raised

_request(outcome) == ExceptClauses(Attempt(outcome))

(***************************************************************************)
(* sorted(): ascending by Rank, every occurrence kept.                     *)
(***************************************************************************)
RECURSIVE Insert(_, _)
Insert(s, x) ==
    IF s = <<>> THEN <<x>>
    ELSE IF Rank(x) < Rank(Head(s)) THEN <<x>> \o s
    ELSE <<Head(s)>> \o Insert(Tail(s), x)

RECURSIVE InsertionSort(_)
InsertionSort(s) ==
    IF s = <<>> THEN <<>>
    ELSE Insert(InsertionSort(SubSeq(s, 1, Len(s) - 1)), s[Len(s)])

\* variant of sorted: the accumulated list returned as it is
Unsorted(s) == s

sorted(s) == InsertionSort(s)

(***************************************************************************)
(* Unit snapshots (AsekoUnit); the model keeps the serial number.  The     *)
(* detail resource of an identifier answers with that identifier as its    *)
(* serialNumber.                                                           *)
(***************************************************************************)
AsekoUnit(sn) == [serial_number |-> sn]

NoUnit == AsekoUnit("none")

\* the outcome of one detail fetch as asyncio.gather(return_exceptions=True)
\* collects it
Pending == [kind |-> "pending", exc |-> NoExc, unit |-> NoUnit]

Success(u) == [kind |-> "ok", exc |-> NoExc, unit |-> u]

Failure(e) == [kind |-> e.kind, exc |-> e, unit |-> NoUnit]

\* the bodies a detail resource answers with: the unit's detail object, or
\* an object without serialNumber
Bodies == {"unit", "no_serial"}

\* _parse_unit: data["serialNumber"] raises KeyError when the key is missing
_parse_unit(sn, i, body) ==
    IF body = "no_serial" THEN Failure(Exc("KeyError", "get_unit", i))
    ELSE Success(AsekoUnit(sn))

\* get_unit(serial_number), issued as the i-th fetch: one _request, then
\* _parse_unit of the body
get_unit(sn, i, outcome, body) ==
    LET k == _request(outcome)
    IN  IF k = "ok" THEN _parse_unit(sn, i, body)
        ELSE Failure(Exc(k, "get_unit", i))

(***************************************************************************)
(* get_units, lines 182-212: the classification of the collected outcomes  *)
(* in identifier order and the check that follows it.                      *)
(***************************************************************************)
NoTally == [raised |-> NoExc, units |-> <<>>, errors |-> <<>>, not_found_count |-> 0]

\* variant of IsFatal: the loop without the AsekoAuthError test
NeverFatal(result) == FALSE

\* line 187
IsFatal(result) == IsInstance(result.kind, "AuthError")

\* variant of Classify: a unit that is not found stays in the list, as a
\* snapshot without content
RECURSIVE ClassifyKeepingNotFound(_, _, _, _)
ClassifyKeepingNotFound(sns, res, i, acc) ==
    IF i > Len(res) \/ i > Len(sns) THEN acc
    ELSE LET result == res[i]
         IN  IF IsFatal(result)
                 THEN [acc EXCEPT !.raised = result.exc]
             ELSE IF IsInstance(result.kind, "NotFoundError")
                 THEN ClassifyKeepingNotFound(sns, res, i + 1,
                          [acc EXCEPT !.not_found_count = @ + 1,
                                      !.units = Append(@, AsekoUnit(sns[i]))])
             ELSE IF IsInstance(result.kind, "Exception")
                 THEN ClassifyKeepingNotFound(sns, res, i + 1,
                          [acc EXCEPT !.errors = Append(@, <<sns[i], result.exc>>)])
             ELSE ClassifyKeepingNotFound(sns, res, i + 1,
                          [acc EXCEPT !.units = Append(@, result.unit)])

\* the for loop over zip(all_serial_numbers, results), from position i on
RECURSIVE Classify(_, _, _, _)
Classify(sns, res, i, acc) ==
    IF i > Len(res) \/ i > Len(sns) THEN acc
    ELSE LET result == res[i]
         IN  IF IsFatal(result)
                 THEN [acc EXCEPT !.raised = result.exc]
             ELSE IF IsInstance(result.kind, "NotFoundError")
                 THEN Classify(sns, res, i + 1,
                               [acc EXCEPT !.not_found_count = @ + 1])
             ELSE IF IsInstance(result.kind, "Exception")
                 THEN Classify(sns, res, i + 1,
                               [acc EXCEPT !.errors = Append(@, <<sns[i], result.exc>>)])
             ELSE Classify(sns, res, i + 1,
                           [acc EXCEPT !.units = Append(@, result.unit)])

\* how a call of get_units ends
Running == [status |-> "running", exc |-> NoExc, units |-> <<>>]

Returned(us) == [status |-> "returned", exc |-> NoExc, units |-> us]

Raised(e) == [status |-> "raised", exc |-> e, units |-> <<>>]

\* variant of NoUnitsAtAll: escalation as soon as one unit is missing
SomeUnitMissing(units, sns) == Len(units) < Len(sns)

\* variant of NoUnitsAtAll: no check after the loop
NeverEscalate(units, sns) == FALSE

\* line 202
NoUnitsAtAll(units, sns) == units = <<>> /\ sns # <<>>

\* variant of AllNotFound: one 404 is enough
SomeNotFound(not_found_count, sns) == not_found_count > 0

\* line 203
AllNotFound(not_found_count, sns) == not_found_count = Len(sns)

\* variant of get_units: after the loop only the all-404 case raises
OnlyAllNotFoundRaises(sns, res) ==
    LET c == Classify(sns, res, 1, NoTally)
    IN  IF c.raised # NoExc THEN Raised(c.raised)
        ELSE IF NoUnitsAtAll(c.units, sns) /\ AllNotFound(c.not_found_count, sns)
            THEN Raised(Exc("ApiError", "all_404", c.not_found_count))
        ELSE Returned(c.units)

\* lines 182-212
get_units(sns, res) ==
    LET c == Classify(sns, res, 1, NoTally)
    IN  IF c.raised # NoExc THEN Raised(c.raised)
        ELSE IF NoUnitsAtAll(c.units, sns)
            THEN IF AllNotFound(c.not_found_count, sns)
                     THEN Raised(Exc("ApiError", "all_404", c.not_found_count))
                 ELSE IF c.errors # <<>>
                     THEN Raised(Exc("ApiError", "fetch_failed", Len(c.errors)))
                 ELSE Returned(c.units)
        ELSE Returned(c.units)

(***************************************************************************)
(* Coordinator, _async_update_data.                                        *)
(***************************************************************************)
\* {unit.serial_number: unit for unit in units}: a later unit replaces an
\* earlier one with the same serial number
ToMapping(us) ==
    [sn \in {us[i].serial_number : i \in DOMAIN us} |->
        LET last == CHOOSE i \in DOMAIN us :
                        /\ us[i].serial_number = sn
                        /\ \A j \in DOMAIN us : us[j].serial_number = sn => j <= i
        IN  us[last]]

\* variant of UpdateSignal: each except clause catches its own class only
ExactClassClauses(kind) ==
    IF kind = "AuthError" THEN "ConfigEntryAuthFailed"
    ELSE IF kind = "ApiError" THEN "UpdateFailed"
    ELSE kind

\* variant of UpdateSignal: the except clauses in the other order
ApiErrorClauseFirst(kind) ==
    IF IsInstance(kind, "ApiError") THEN "UpdateFailed"
    ELSE IF IsInstance(kind, "AuthError") THEN "ConfigEntryAuthFailed"
    ELSE kind

\* the except clauses, in their order
UpdateSignal(kind) ==
    IF IsInstance(kind, "AuthError") THEN "ConfigEntryAuthFailed"
    ELSE IF IsInstance(kind, "ApiError") THEN "UpdateFailed"
    ELSE kind

\* coordinator.data before the first refresh
None == [sn \in {"None"} |-> NoUnit]

(***************************************************************************)
(* get_unit_serials, the loop's second stop condition.                     *)
(***************************************************************************)
\* variant of TotalReached: strict comparison
StopAbove(p, total_items) == p * Limit > total_items

\* line 152
TotalReached(p, total_items) == p * Limit >= total_items

(***************************************************************************)
(* get_unit_serials as the config flow calls it: the whole loop over the   *)
(* pages a server answers with.  An answer is the outcome of the request,  *)
(* the items of the page, its totalItems, and whether every item carries   *)
(* a serialNumber.                                                         *)
(***************************************************************************)
Answer(outcome, items, total_items, well_formed) ==
    [outcome |-> outcome, items |-> items, total_items |-> total_items,
     well_formed |-> well_formed]

ReturnedSerials(sns) == [status |-> "returned", kind |-> "none", serials |-> sns]

RaisedIn(kind) == [status |-> "raised", kind |-> kind, serials |-> <<>>]

\* the answer to the request of page p: past its last page the server
\* answers with an empty page
PageAt(answers, p) ==
    IF p \in DOMAIN answers THEN answers[p] ELSE Answer("200", <<>>, 0, TRUE)

\* the while loop from page p on; acc is all_serial_numbers
RECURSIVE Paging(_, _, _)
Paging(answers, p, acc) ==
    LET a == PageAt(answers, p)
    IN  IF _request(a.outcome) # "ok" THEN RaisedIn(_request(a.outcome))
        ELSE IF a.items = <<>> THEN ReturnedSerials(sorted(acc))
        ELSE IF ~a.well_formed THEN RaisedIn("KeyError")
        ELSE IF TotalReached(p, a.total_items)
            THEN ReturnedSerials(sorted(acc \o a.items))
        ELSE Paging(answers, p + 1, acc \o a.items)

get_unit_serials(answers) == Paging(answers, 1, <<>>)

(***************************************************************************)
(* The backend as the config flow sees it: API keys, the account each      *)
(* belongs to, and a listing that pages the units paired with the account. *)
(***************************************************************************)
Accounts == {"X", "Y"}

\* "bad" is a key the backend does not know
Keys == {"kx1", "kx2", "ky1", "bad"}

Account(api_key) ==
    CASE api_key \in {"kx1", "kx2"} -> "X"
      [] api_key = "ky1"            -> "Y"
      [] OTHER                      -> "none"

\* the units in S as the backend lists them, last identifier first
RECURSIVE Listed(_)
Listed(S) ==
    IF S = {} THEN <<>>
    ELSE LET top == CHOOSE x \in S : \A y \in S : Rank(y) <= Rank(x)
         IN  <<top>> \o Listed(S \ {top})

Min(a, b) == IF a <= b THEN a ELSE b

\* the pages of the listing of units, Limit to a page and totalItems on
\* each; outcomes[p] is how the request of page p goes
ServerPages(units, outcomes, well_formed) ==
    LET n == Len(units)
        pages == IF n = 0 THEN 1 ELSE (n + Limit - 1) \div Limit
    IN  [p \in 1..pages |->
            Answer(outcomes[p],
                   SubSeq(units, (p - 1) * Limit + 1, Min(p * Limit, n)),
                   n, well_formed)]

\* the pages a listing of MaxUnits units takes
MaxPages == (MaxUnits + Limit - 1) \div Limit

\* one outcome for each thing _request makes of an exchange
FlowOutcomes == {"200", "401", "404", "500", "transport"}

\* how the requests of one flow step go: the key check, then the pages;
\* nothing is requested after a request that failed
RequestRuns ==
    {r \in [1..MaxPages + 1 -> FlowOutcomes] :
        \A i, j \in DOMAIN r : (i < j /\ _request(r[i]) # "ok") => r[j] = "200"}

(***************************************************************************)
(* config_flow.py: _stable_hash and _validate_api_key.                     *)
(***************************************************************************)
\* a digest of the key: another string, different for different keys
_stable_hash(value) == "sha256:" \o value

\* variant of ErrorOf: the clause of AsekoApiError comes first
ApiErrorFirst(kind) ==
    IF IsInstance(kind, "ApiError") THEN "cannot_connect"
    ELSE IF IsInstance(kind, "AuthError") THEN "invalid_auth"
    ELSE "unknown"

\* the except clauses of _validate_api_key, lines 73-79
ErrorOf(kind) ==
    IF IsInstance(kind, "AuthError") THEN "invalid_auth"
    ELSE IF IsInstance(kind, "ApiError") THEN "cannot_connect"
    ELSE "unknown"

\* what _validate_api_key returns, and what made it return without a
\* unique_id: the exception caught, or "not_valid" for line 56
Validation(unique_id, errors, caught) ==
    [unique_id |-> unique_id, errors |-> errors, caught |-> caught]

\* lines 63-69
UniqueIdOf(serial_numbers, api_key) ==
    IF serial_numbers # <<>> THEN serial_numbers[1]
    ELSE "aseko_" \o _stable_hash(api_key)

\* _validate_api_key(api_key): outcome is how the request of
\* validate_api_key goes, valid the flag of its body, answers the pages of
\* the listing.  unique_id "None" is Python's None.
_validate_api_key(api_key, outcome, valid, answers) ==
    IF _request(outcome) # "ok"
        THEN Validation("None", ErrorOf(_request(outcome)), _request(outcome))
    ELSE IF ~valid
        THEN Validation("None", "invalid_auth", "not_valid")
    ELSE LET listing == get_unit_serials(answers)
         IN  IF listing.status = "raised"
                 THEN Validation("None", ErrorOf(listing.kind), listing.kind)
                 ELSE Validation(UniqueIdOf(listing.serials, api_key), "", "none")

(***************************************************************************)
(* _parse_unit field by field, on the body of a detail response.  A body   *)
(* is a mapping from the keys it has to their values; a status message is  *)
(* a mapping too, with or without a severity.                              *)
(***************************************************************************)
MaxMessages == 2

MessageTypes == {"NO_FLOW", "PH_LOW"}

Severities == {"ERROR", "WARNING", "INFO"}

Messages ==
    [type : MessageTypes, severity : Severities] \cup [type : MessageTypes]

RECURSIVE MessageLists(_)
MessageLists(n) ==
    IF n = 0 THEN {<<>>}
    ELSE LET shorter == MessageLists(n - 1)
         IN  shorter \cup {Append(s, m) : s \in shorter, m \in Messages}

\* a dict with no key
EmptyDict == [k \in {} |-> ""]

\* the values a detail response has under brandName
BrandNames ==
    {EmptyDict, [primary |-> "Aseko"], [primary |-> "Aseko", secondary |-> "Pool"]}

\* the dicts that have the key with one of the values, or do not have it
Optional(key, values) == {EmptyDict} \cup {key :> v : v \in values}

\* the bodies of a detail response: each of serialNumber, name, note,
\* online, brandName, statusMessages and statusValues is there or is not
DetailBodies ==
    {sn @@ nm @@ nt @@ on @@ bn @@ sm @@ sv :
        sn \in Optional("serialNumber", {"A"}),
        nm \in Optional("name", {"Pool"}),
        nt \in Optional("note", {"garden"}),
        on \in Optional("online", {TRUE}),
        bn \in Optional("brandName", BrandNames),
        sm \in Optional("statusMessages", MessageLists(MaxMessages)),
        sv \in Optional("statusValues", {[ph |-> "7.2"]})}

\* dict.get(key, default)
Get(d, key, default) == IF key \in DOMAIN d THEN d[key] ELSE default

\* variant of IsAlert: a WARNING does not count
IsError(msg) == Get(msg, "severity", "None") = "ERROR"

\* line 248: msg.get("severity") in ("ERROR", "WARNING")
IsAlert(msg) == Get(msg, "severity", "None") \in {"ERROR", "WARNING"}

\* any(...) over the messages from position i on
RECURSIVE AnyAlert(_, _)
AnyAlert(msgs, i) ==
    IF i > Len(msgs) THEN FALSE
    ELSE IF IsAlert(msgs[i]) THEN TRUE
    ELSE AnyAlert(msgs, i + 1)

\* variant of RequiredKeys: name is subscripted as serialNumber is
NameRequired == {"serialNumber", "name"}

\* the keys _parse_unit subscripts (line 254); every other key is read
\* with get
RequiredKeys == {"serialNumber"}

\* lines 239-243: f"{primary} {secondary}".strip() or None, for parts
\* with no blank in them; nothing is made of a missing or empty brandName
BrandName(data) ==
    LET brand_data == Get(data, "brandName", EmptyDict)
        primary == Get(brand_data, "primary", "")
        secondary == Get(brand_data, "secondary", "")
    IN  IF brand_data = EmptyDict THEN "None"
        ELSE IF primary = "" /\ secondary = "" THEN "None"
        ELSE IF secondary = "" THEN primary
        ELSE IF primary = "" THEN secondary
        ELSE primary \o " " \o secondary

\* lines 239-260: the AsekoUnit built from the body, or the KeyError of
\* data["serialNumber"]
ParseDetail(data) ==
    LET status_messages == Get(data, "statusMessages", <<>>)
        has_warning == AnyAlert(status_messages, 1)
    IN  IF ~(RequiredKeys \subseteq DOMAIN data)
            THEN [kind |-> "KeyError", unit |-> [serial_number |-> "none"]]
            ELSE [kind |-> "ok",
                  unit |-> [serial_number |-> data["serialNumber"],
                            name |-> Get(data, "name", "None"),
                            note |-> Get(data, "note", "None"),
                            online |-> Get(data, "online", FALSE),
                            has_warning |-> has_warning,
                            brand_name |-> BrandName(data),
                            status_values |-> Get(data, "statusValues", EmptyDict)]]

(***************************************************************************)
(* binary_sensor.py: extra_state_attributes of the entity with the given   *)
(* key, over the unit the coordinator holds for it.                        *)
(***************************************************************************)
\* the messages of severity ERROR or WARNING, from position i on
RECURSIVE ErrorMsgs(_, _)
ErrorMsgs(msgs, i) ==
    IF i > Len(msgs) THEN <<>>
    ELSE IF IsAlert(msgs[i]) THEN <<msgs[i]>> \o ErrorMsgs(msgs, i + 1)
    ELSE ErrorMsgs(msgs, i + 1)

\* ",".join of the types, from position i on
RECURSIVE JoinTypes(_, _)
JoinTypes(msgs, i) ==
    IF i > Len(msgs) THEN ""
    ELSE IF i = Len(msgs) THEN Get(msgs[i], "type", "")
    ELSE Get(msgs[i], "type", "") \o "," \o JoinTypes(msgs, i + 1)

\* what the property gives: it raises, it returns None, or it returns the
\* attributes
NoAttributes(raised) ==
    [raised |-> raised, present |-> FALSE, error_types |-> "", errors |-> <<>>]

\* lines 191-217; reading an attribute the unit does not have raises
\* AttributeError
extra_state_attributes(key, unit) ==
    IF key # "has_warning" THEN NoAttributes("none")
    ELSE IF "status_messages" \notin DOMAIN unit THEN NoAttributes("AttributeError")
    ELSE IF unit.status_messages = <<>> THEN NoAttributes("none")
    ELSE LET error_msgs == ErrorMsgs(unit.status_messages, 1)
         IN  IF error_msgs = <<>> THEN NoAttributes("none")
             ELSE [raised |-> "none", present |-> TRUE,
                   error_types |-> JoinTypes(error_msgs, 1),
                   errors |-> error_msgs]

(***************************************************************************)
(* The entity platforms, sensor.py and binary_sensor.py.  A snapshot as    *)
(* they read it: serial_number, online and status_values, a function from  *)
(* the status keys the unit reports to their raw values.                   *)
(***************************************************************************)
Platforms == {"sensor", "binary_sensor"}

\* the units of the account the platforms are set up for
Pools == {"A", "B"}

\* an entry of SENSOR_DESCRIPTIONS or BINARY_SENSOR_DESCRIPTIONS; a binary
\* description with the default available_fn has no status key
Description(key, status_key, value_fn) ==
    [key |-> key, status_key |-> status_key, value_fn |-> value_fn]

SENSOR_DESCRIPTIONS == {Description("ph", "ph", "_parse_float")}

BINARY_SENSOR_DESCRIPTIONS ==
    {Description("online", "", "online"),
     Description("heating", "heatingRunning", "_parse_bool_status")}

Descriptions(p) ==
    IF p = "sensor" THEN SENSOR_DESCRIPTIONS ELSE BINARY_SENSOR_DESCRIPTIONS

\* the raw values a unit reports under a status key
RawValues(status_key) ==
    IF status_key = "ph" THEN {"---", "7.2"} ELSE {"ON"}

StatusKeys == {"ph", "heatingRunning"}

StatusValues ==
    UNION {{sv \in [K -> {"---", "7.2", "ON"}] :
                \A k \in K : sv[k] \in RawValues(k)} : K \in SUBSET StatusKeys}

Snapshot(sn, online, status_values) ==
    [serial_number |-> sn, online |-> online, status_values |-> status_values]

\* the mappings a successful refresh can expose; the units are online
Mappings ==
    UNION {{m \in [S -> {Snapshot(sn, TRUE, sv) :
                            sn \in S, sv \in StatusValues}] :
                \A sn \in S : m[sn].serial_number = sn} : S \in SUBSET Pools}

NoUnits == CHOOSE m \in Mappings : DOMAIN m = {}

\* f"{unit.serial_number}_{description.key}"
unique_id(sn, key) == sn \o "_" \o key

EntityIds(p) == {unique_id(sn, d.key) : sn \in Pools, d \in Descriptions(p)}

\* what a property of an entity gives
PyNone == [type |-> "NoneType", value |-> "None"]

PyValue(type, value) == [type |-> type, value |-> value]

\* sensor.py:39-46
_parse_float(value) ==
    IF value \in {"---", ""} THEN PyNone ELSE PyValue("float", value)

\* binary_sensor.py:33-42, for the strings a unit reports
_parse_bool_status(status_values, key) ==
    IF key \notin DOMAIN status_values \/ status_values[key] = "---" THEN PyNone
    ELSE IF status_values[key] \in {"YES", "ON", "TRUE", "1"}
        THEN PyValue("bool", "True")
    ELSE PyValue("bool", "False")

\* the available_fn of a binary description
available_fn(d, unit) ==
    d.status_key = "" \/ d.status_key \in DOMAIN unit.status_values

\* the test under which _async_add_new_entities makes an entity of a
\* description for a unit (sensor.py:147, binary_sensor.py:120)
Offers(p, d, unit) ==
    IF p = "sensor" THEN d.status_key \in DOMAIN unit.status_values
    ELSE available_fn(d, unit)

\* variant of IsKnown: no unit is skipped
NeverKnown(sn, known) == FALSE

\* sensor.py:143, binary_sensor.py:116
IsKnown(sn, known) == sn \in known

\* _async_add_new_entities of platform p over the mapping: the entities
\* handed to async_add_entities, counted by unique id, and known_units
\* afterwards
_async_add_new_entities(p, mapping, known, ents) ==
    LET new_entities ==
            {unique_id(e[1], e[2].key) :
                e \in {x \in (DOMAIN mapping) \X Descriptions(p) :
                          /\ ~IsKnown(x[1], known)
                          /\ Offers(p, x[2], mapping[x[1]])}}
    IN  [known_units |-> known \cup DOMAIN mapping,
         entities    |-> [uid \in EntityIds(p) |->
                             ents[uid] + (IF uid \in new_entities THEN 1 ELSE 0)]]

(***************************************************************************)
(* State.                                                                  *)
(***************************************************************************)
VARIABLES
    pc,                 \* "idle"; "paging": in the loop of get_unit_serials;
                        \* "listed": get_unit_serials is returning its list;
                        \* "gather": get_units awaits the detail fetches
    page,               \* get_unit_serials: page
    all_serial_numbers, \* get_unit_serials: the accumulated list
    asked,              \* get_unit_serials: the page numbers requested so far
    stop,               \* get_unit_serials: why the loop ended
    zero_total,         \* get_unit_serials: no page so far carried a
                        \* totalItems above 0
    received,           \* get_unit_serials: how often each identifier came
                        \* in the pages so far
    more_pages,         \* the server holds a non-empty page after the last
                        \* page it sent
    serials,            \* get_units: all_serial_numbers, the sorted list
    results,            \* get_units: the outcomes asyncio.gather collects
    detail_requests,    \* get_units: detail fetches issued
    gu,                 \* how the last call of get_units ended
    data,               \* coordinator.data, the exposed mapping
    data_before,        \* coordinator.data when the refresh cycle began
    retrieved,          \* the serial numbers whose detail fetch gave a
                        \* snapshot in the most recent successful cycle
    signal,             \* what _async_update_data last did: "none" while a
                        \* cycle runs, "success", or the exception it raised
    paired_to,          \* backend: the account each unit is paired with
    entry,              \* the config entry of the integration
    reauth,             \* a reauth flow for the entry is open
    flow,               \* what the step of a config flow that has just
                        \* ended did; NoFlow once the user has seen it
    parsed,             \* the last detail body given to _parse_unit and
                        \* what came of it
    listing,            \* the pages a server answered one call of
                        \* get_unit_serials with, and what the call gave
    loaded,             \* the platforms of the entry have been set up
    exposed,            \* coordinator.data as the entity platforms read it
    last_update_success,\* the coordinator's last refresh succeeded
    known_units,        \* known_units of each platform's async_setup_entry
    entities,           \* for each platform and unique id, how many
                        \* entities have been handed to async_add_entities
    gone                \* the known units that some notification found
                        \* missing from the mapping

frame == <<page, all_serial_numbers, asked, stop, zero_total, received, more_pages>>

vars == <<pc, page, all_serial_numbers, asked, stop, zero_total, received,
          more_pages, serials, results, detail_requests, gu, data, data_before,
          retrieved, signal, paired_to, entry, reauth, flow, parsed, listing,
          loaded, exposed, last_update_success, known_units, entities, gone>>

\* the state of the calls looked at one by one, which the refresh cycle,
\* the config flow and the parser leave alone
platform == <<loaded, exposed, last_update_success, known_units, entities, gone>>

apart == <<listing, platform>>

\* the state of the config flow and of the parser, which a refresh cycle
\* leaves alone
aside == <<paired_to, entry, reauth, flow, parsed, apart>>

\* the state of the refresh cycle, which the config flow and the parser
\* leave alone
cycle == <<pc, frame, serials, results, detail_requests, gu, data, data_before,
           retrieved, signal>>

NoEntry == [unique_id |-> "None", api_key |-> "none", account |-> "none"]

NoFlow ==
    [step |-> "none", api_key |-> "none", unique_id |-> "None", errors |-> "",
     caught |-> "none", result |-> "none", key_before |-> "none",
     account_before |-> "none"]

NoBody == [name |-> "none"]

NotParsed ==
    [outcome |-> "none", result |-> "none", data |-> NoBody, kind |-> "none",
     unit |-> NoUnit]

NoListing == [answers |-> <<>>, total |-> 0, result |-> RaisedIn("none")]

NothingReceived == [id \in Ids |-> 0]

Init ==
    /\ pc = "idle"
    /\ page = 1
    /\ all_serial_numbers = <<>>
    /\ asked = <<>>
    /\ stop = "none"
    /\ zero_total = TRUE
    /\ received = NothingReceived
    /\ more_pages = FALSE
    /\ serials = <<>>
    /\ results = <<>>
    /\ detail_requests = 0
    /\ gu = Running
    /\ data = None
    /\ data_before = None
    /\ retrieved = {}
    /\ signal = "none"
    /\ paired_to = [u \in Ids |-> "none"]
    /\ entry = NoEntry
    /\ reauth = FALSE
    /\ flow = NoFlow
    /\ parsed = NotParsed
    /\ listing = NoListing
    /\ loaded = FALSE
    /\ exposed = NoUnits
    /\ last_update_success = FALSE
    /\ known_units = [p \in Platforms |-> {}]
    /\ entities = [p \in Platforms |-> [uid \in EntityIds(p) |-> 0]]
    /\ gone = {}

\* get_unit_serials is entered (lines 134-136)
EnterSerials ==
    /\ page' = 1
    /\ all_serial_numbers' = <<>>
    /\ asked' = <<>>
    /\ stop' = "none"
    /\ zero_total' = TRUE
    /\ received' = NothingReceived
    /\ more_pages' = FALSE

\* the serial numbers whose detail fetch has given a snapshot
Fetched == {serials[i] : i \in {j \in DOMAIN results : results[j].kind = "ok"}}

\* variant of Finish: the new mapping is merged into the exposed one
FinishMerging(o) ==
    /\ gu' = o
    /\ pc' = "idle"
    /\ UNCHANGED data_before
    /\ IF o.status = "returned"
           THEN /\ data' = LET new == ToMapping(o.units)
                               old == IF data = None THEN << >> ELSE data
                           IN  [sn \in DOMAIN new \cup DOMAIN old |->
                                   IF sn \in DOMAIN new THEN new[sn] ELSE old[sn]]
                /\ retrieved' = Fetched
                /\ signal' = "success"
           ELSE /\ data' = data
                /\ retrieved' = retrieved
                /\ signal' = UpdateSignal(o.exc.kind)

\* _async_update_data once get_units has ended as o, and what the
\* coordinator does with it: a returned mapping becomes coordinator.data,
\* a raised exception leaves coordinator.data alone
Finish(o) ==
    /\ gu' = o
    /\ pc' = "idle"
    /\ UNCHANGED data_before
    /\ IF o.status = "returned"
           THEN /\ data' = ToMapping(o.units)
                /\ retrieved' = Fetched
                /\ signal' = "success"
           ELSE /\ data' = data
                /\ retrieved' = retrieved
                /\ signal' = UpdateSignal(o.exc.kind)

AddReceived(items) ==
    [id \in Ids |-> received[id] + Cardinality({i \in DOMAIN items : items[i] = id})]

\* a refresh cycle begins, by the timer or on request: the coordinator
\* calls _async_update_data, which calls get_units, which calls
\* get_unit_serials
StartRefresh ==
    /\ UNCHANGED aside
    /\ pc = "idle"
    /\ pc' = "paging"
    /\ EnterSerials
    /\ serials' = <<>>
    /\ results' = <<>>
    /\ detail_requests' = 0
    /\ gu' = Running
    /\ signal' = "none"
    /\ data_before' = data
    /\ UNCHANGED <<data, retrieved>>

\* variant of ListPage: a page request that fails ends the loop like an
\* empty page, and what was accumulated is returned
ListPagePartial(outcome, items, has_total, totalItems, more) ==
    /\ UNCHANGED aside
    /\ pc = "paging"
    /\ Len(all_serial_numbers) + Len(items) <= MaxUnits
    /\ _request(outcome) # "ok" => items = <<>> /\ ~has_total
    /\ ~has_total => totalItems = 0
    /\ items = <<>> => ~more
    /\ asked' = Append(asked, page)
    /\ more_pages' = more
    /\ LET k == _request(outcome)
           total_items == IF has_total THEN totalItems ELSE 0
       IN  IF k # "ok"
               THEN /\ stop' = "error"
                    /\ pc' = "listed"
                    /\ serials' = sorted(all_serial_numbers)
                    /\ UNCHANGED <<page, all_serial_numbers, zero_total, received,
                                   results, detail_requests, gu, data,
                                   data_before, retrieved, signal>>
           ELSE IF items = <<>>
               THEN /\ stop' = "empty_page"
                    /\ pc' = "listed"
                    /\ serials' = sorted(all_serial_numbers)
                    /\ UNCHANGED <<page, all_serial_numbers, zero_total, received,
                                   results, detail_requests, gu, data,
                                   data_before, retrieved, signal>>
           ELSE /\ all_serial_numbers' = all_serial_numbers \o items
                /\ received' = AddReceived(items)
                /\ zero_total' = (zero_total /\ total_items = 0)
                /\ UNCHANGED <<results, detail_requests, gu, data, data_before,
                               retrieved, signal>>
                /\ IF TotalReached(page, total_items)
                       THEN /\ stop' = "total_reached"
                            /\ pc' = "listed"
                            /\ serials' = sorted(all_serial_numbers \o items)
                            /\ UNCHANGED page
                       ELSE /\ page' = page + 1
                            /\ UNCHANGED <<pc, stop, serials>>

\* get_unit_serials: the request of one page comes back.  A failed request
\* raises through get_unit_serials and get_units into _async_update_data.
ListPage(outcome, items, has_total, totalItems, more) ==
    /\ UNCHANGED aside
    /\ pc = "paging"
    /\ Len(all_serial_numbers) + Len(items) <= MaxUnits
    /\ _request(outcome) # "ok" => items = <<>> /\ ~has_total
    /\ ~has_total => totalItems = 0
    /\ items = <<>> => ~more
    /\ asked' = Append(asked, page)
    /\ more_pages' = more
    /\ LET k == _request(outcome)
           total_items == IF has_total THEN totalItems ELSE 0
       IN  IF k # "ok"
               THEN /\ stop' = "error"
                    /\ Finish(Raised(Exc(k, "paired_units", page)))
                    /\ UNCHANGED <<page, all_serial_numbers, zero_total, received,
                                   serials, results, detail_requests>>
           ELSE IF items = <<>>
               THEN /\ stop' = "empty_page"
                    /\ pc' = "listed"
                    /\ serials' = sorted(all_serial_numbers)
                    /\ UNCHANGED <<page, all_serial_numbers, zero_total, received,
                                   results, detail_requests, gu, data,
                                   data_before, retrieved, signal>>
           ELSE /\ all_serial_numbers' = all_serial_numbers \o items
                /\ received' = AddReceived(items)
                /\ zero_total' = (zero_total /\ total_items = 0)
                /\ UNCHANGED <<results, detail_requests, gu, data, data_before,
                               retrieved, signal>>
                /\ IF TotalReached(page, total_items)
                       THEN /\ stop' = "total_reached"
                            /\ pc' = "listed"
                            /\ serials' = sorted(all_serial_numbers \o items)
                            /\ UNCHANGED page
                       ELSE /\ page' = page + 1
                            /\ UNCHANGED <<pc, stop, serials>>

\* variant of FanOut: no early return, an empty list escalates like all-404
ErrorOnEmpty ==
    /\ UNCHANGED aside
    /\ pc = "listed"
    /\ EnterSerials
    /\ IF serials = <<>>
           THEN /\ results' = <<>>
                /\ detail_requests' = 0
                /\ Finish(Raised(Exc("ApiError", "all_404", 0)))
           ELSE /\ results' = [i \in 1..Len(serials) |-> Pending]
                /\ detail_requests' = Len(serials)
                /\ pc' = "gather"
                /\ UNCHANGED <<gu, data, data_before, retrieved, signal>>
    /\ UNCHANGED serials

\* get_units, lines 171-180: get_unit_serials has returned (its frame is
\* gone); an empty list is returned at once, otherwise one detail fetch per
\* entry is started
FanOut ==
    /\ UNCHANGED aside
    /\ pc = "listed"
    /\ EnterSerials
    /\ IF serials = <<>>
           THEN /\ results' = <<>>
                /\ detail_requests' = 0
                /\ Finish(Returned(<<>>))
           ELSE /\ results' = [i \in 1..Len(serials) |-> Pending]
                /\ detail_requests' = Len(serials)
                /\ pc' = "gather"
                /\ UNCHANGED <<gu, data, data_before, retrieved, signal>>
    /\ UNCHANGED serials

\* variant of FetchDone: a fetch that fails cancels the fetches still in
\* flight
FetchDoneCancelling(i, outcome, body) ==
    /\ UNCHANGED aside
    /\ pc = "gather"
    /\ i \in DOMAIN results
    /\ results[i] = Pending
    /\ _request(outcome) # "ok" => body = "unit"
    /\ results' = LET r == get_unit(serials[i], i, outcome, body)
                  IN  [j \in DOMAIN results |->
                          IF j = i THEN r
                          ELSE IF results[j] = Pending /\ r.kind # "ok"
                              THEN Failure(Exc("ConnectionError", "cancelled", j))
                          ELSE results[j]]
    /\ UNCHANGED <<pc, frame, serials, detail_requests, gu, data, data_before,
                   retrieved, signal>>

\* the detail fetch of position i ends; gather keeps its outcome
FetchDone(i, outcome, body) ==
    /\ UNCHANGED aside
    /\ pc = "gather"
    /\ i \in DOMAIN results
    /\ results[i] = Pending
    /\ _request(outcome) # "ok" => body = "unit"
    /\ results' = [results EXCEPT ![i] = get_unit(serials[i], i, outcome, body)]
    /\ UNCHANGED <<pc, frame, serials, detail_requests, gu, data, data_before,
                   retrieved, signal>>

\* variant of Join: gather returns as soon as an AuthError has been
\* collected, whatever is still in flight
JoinOnAuthError ==
    /\ UNCHANGED aside
    /\ pc = "gather"
    /\ \/ \A i \in DOMAIN results : results[i] # Pending
       \/ \E i \in DOMAIN results : results[i].kind = "AuthError"
    /\ Finish(get_units(serials, results))
    /\ UNCHANGED <<frame, serials, results, detail_requests>>

\* every fetch has ended: gather returns, get_units classifies (lines
\* 182-212) and _async_update_data ends with it
Join ==
    /\ UNCHANGED aside
    /\ pc = "gather"
    /\ \A i \in DOMAIN results : results[i] # Pending
    /\ Finish(get_units(serials, results))
    /\ UNCHANGED <<frame, serials, results, detail_requests>>

\* the server answers the page request in flight
PageArrives ==
    /\ pc = "paging"
    /\ \E outcome \in HttpOutcomes, items \in PageItems,
          has_total \in BOOLEAN, totalItems \in 0..MaxTotal, more \in BOOLEAN :
          ListPage(outcome, items, has_total, totalItems, more)

\* the server answers one of the detail requests in flight, in any order
FetchEnds ==
    \E i \in DOMAIN results, outcome \in HttpOutcomes, body \in Bodies :
        FetchDone(i, outcome, body)

Next ==
    \/ StartRefresh
    \/ PageArrives
    \/ FanOut
    \/ FetchEnds
    \/ Join

Spec == Init /\ [][Next]_vars


(***************************************************************************)
(* The config flow (config_flow.py) against a backend whose pairings       *)
(* change.  One config entry and one open flow at a time.                  *)
(***************************************************************************)
\* the units paired with account a, as the backend lists them
UnitsOf(a) == Listed({u \in Ids : paired_to[u] = a})

\* _validate_api_key against the backend as it is now: run[1] is how the
\* key check goes, run[p + 1] how the request of page p goes
ValidateNow(api_key, run, well_formed) ==
    _validate_api_key(api_key, run[1], Account(api_key) # "none",
                      ServerPages(UnitsOf(Account(api_key)),
                                  [p \in 1..MaxPages |-> run[p + 1]],
                                  well_formed))

Passed(v) == v.unique_id # "None" /\ v.errors = ""

\* what a step of the flow leaves behind
FlowStep(step, api_key, v, errors, result) ==
    [step |-> step, api_key |-> api_key, unique_id |-> v.unique_id,
     errors |-> errors, caught |-> v.caught, result |-> result,
     key_before |-> entry.api_key, account_before |-> entry.account]

\* the owner of a unit pairs it with an account
Pair(u, a) ==
    /\ paired_to[u] = "none"
    /\ paired_to' = [paired_to EXCEPT ![u] = a]
    /\ flow = NoFlow
    /\ UNCHANGED <<flow, entry, reauth, parsed, cycle, apart>>

\* the owner of a unit removes it from its account
Unpair(u) ==
    /\ paired_to[u] # "none"
    /\ paired_to' = [paired_to EXCEPT ![u] = "none"]
    /\ flow = NoFlow
    /\ UNCHANGED <<flow, entry, reauth, parsed, cycle, apart>>

\* async_step_user with user_input: lines 89-100, or the form of line 102
async_step_user(api_key, run, well_formed) ==
    /\ ~reauth
    /\ flow = NoFlow
    /\ LET v == ValidateNow(api_key, run, well_formed)
       IN  /\ (Passed(v) /\ entry # NoEntry) => entry.unique_id = v.unique_id
           /\ IF ~Passed(v)
                  THEN /\ flow' = FlowStep("user", api_key, v, v.errors, "form")
                       /\ UNCHANGED entry
              ELSE IF entry # NoEntry
                  THEN /\ flow' = FlowStep("user", api_key, v, "", "already_configured")
                       /\ UNCHANGED entry
              ELSE /\ flow' = FlowStep("user", api_key, v, "", "create_entry")
                   /\ entry' = [unique_id |-> v.unique_id, api_key |-> api_key,
                                account |-> Account(api_key)]
    /\ UNCHANGED <<paired_to, reauth, parsed, cycle, apart>>

\* async_step_reauth: the form of reauth_confirm, no input yet
async_step_reauth ==
    /\ ~reauth
    /\ flow = NoFlow
    /\ entry # NoEntry
    /\ reauth' = TRUE
    /\ flow' = [NoFlow EXCEPT !.step = "reauth", !.result = "form",
                              !.key_before = entry.api_key,
                              !.account_before = entry.account]
    /\ UNCHANGED <<paired_to, entry, parsed, cycle, apart>>

\* async_step_reauth_confirm with user_input: lines 120-139, or the form of
\* line 141
async_step_reauth_confirm(api_key, run, well_formed) ==
    /\ reauth
    /\ flow = NoFlow
    /\ LET v == ValidateNow(api_key, run, well_formed)
       IN  IF ~Passed(v)
               THEN /\ flow' = FlowStep("reauth_confirm", api_key, v, v.errors, "form")
                    /\ UNCHANGED <<entry, reauth>>
           ELSE IF entry = NoEntry
               THEN /\ flow' = FlowStep("reauth_confirm", api_key, v, "unknown", "form")
                    /\ UNCHANGED <<entry, reauth>>
           ELSE IF entry.unique_id # v.unique_id
               THEN /\ flow' = FlowStep("reauth_confirm", api_key, v,
                                        "account_mismatch", "form")
                    /\ UNCHANGED <<entry, reauth>>
           ELSE /\ flow' = FlowStep("reauth_confirm", api_key, v, "",
                                    "reauth_successful")
                /\ entry' = [entry EXCEPT !.api_key = api_key]
                /\ reauth' = FALSE
    /\ UNCHANGED <<paired_to, parsed, cycle, apart>>

\* the user deletes the integration while the reauth flow is open: the
\* entry of line 125 is no longer there
RemoveEntry ==
    /\ reauth
    /\ entry # NoEntry
    /\ entry' = NoEntry
    /\ flow = NoFlow
    /\ UNCHANGED <<flow, paired_to, reauth, parsed, cycle, apart>>

\* the user closes the reauth form
CloseReauth ==
    /\ reauth
    /\ reauth' = FALSE
    /\ flow = NoFlow
    /\ UNCHANGED <<flow, paired_to, entry, parsed, cycle, apart>>

\* the user has seen what the step did
Seen ==
    /\ flow # NoFlow
    /\ flow' = NoFlow
    /\ UNCHANGED <<paired_to, entry, reauth, parsed, cycle, apart>>

Pairs == \E u \in Ids, a \in Accounts : Pair(u, a)

Unpairs == \E u \in Ids : Unpair(u)

UserStep ==
    /\ ~reauth
    /\ flow = NoFlow
    /\ \E api_key \in Keys, run \in RequestRuns, well_formed \in BOOLEAN :
           async_step_user(api_key, run, well_formed)

ReauthStep ==
    /\ reauth
    /\ flow = NoFlow
    /\ \E api_key \in Keys, run \in RequestRuns, well_formed \in BOOLEAN :
           async_step_reauth_confirm(api_key, run, well_formed)

FlowNext ==
    \/ Pairs
    \/ Unpairs
    \/ UserStep
    \/ async_step_reauth
    \/ ReauthStep
    \/ RemoveEntry
    \/ CloseReauth
    \/ Seen

FlowSpec == Init /\ [][FlowNext]_vars

(***************************************************************************)
(* Properties.                                                             *)
(***************************************************************************)
\* get_units has ended after a fan-out: the identifier list was not empty
\* and every detail fetch has its outcome in results
Joined == gu.status # "running" /\ results # <<>>

Having(kind) == {i \in DOMAIN results : results[i].kind = kind}

IsOk(result) == result.kind = "ok"

Count(s, x) == Cardinality({i \in DOMAIN s : s[i] = x})

Ascending(s) == \A i, j \in DOMAIN s : i < j => Rank(s[i]) <= Rank(s[j])

\* C1: when at least one detail fetch of a non-empty identifier list yields
\* AuthError, get_units raises AuthError, and what it raises is the error of
\* one of the failing fetches, whatever the position of that fetch, the
\* order in which the fetches ended and the outcomes of the other fetches;
\* it neither returns a list nor raises one of the aggregate ApiErrors.
C1_AuthErrorBubblesUp ==
    (Joined /\ Having("AuthError") # {}) =>
        /\ gu.status = "raised"
        /\ gu.exc.kind = "AuthError"
        /\ gu.exc.origin = "get_unit"
        /\ \E i \in Having("AuthError") : results[i].exc = gu.exc
        /\ gu.units = <<>>

C1_Witness ==
    /\ Joined
    /\ Len(results) = 3
    /\ results[1].kind = "NotFoundError"
    /\ results[2].kind = "ok"
    /\ results[3].kind = "AuthError"
    /\ gu.status = "raised"

\* C2: when no detail fetch yields AuthError and at least one succeeds,
\* get_units returns without raising, and the returned list holds the
\* snapshot of every succeeded fetch once, in the order of the sorted
\* identifier list; a fetch that ended in NotFoundError or another failure
\* contributes nothing to the list.
C2_PartialSuccessReturned ==
    (Joined /\ Having("AuthError") = {} /\ Having("ok") # {}) =>
        LET succeeded == SelectSeq(results, IsOk)
        IN  /\ gu.status = "returned"
            /\ gu.exc = NoExc
            /\ Len(gu.units) = Cardinality(Having("ok"))
            /\ gu.units = [j \in 1..Len(succeeded) |-> succeeded[j].unit]
            /\ Ascending([j \in 1..Len(gu.units) |-> gu.units[j].serial_number])
            /\ \A j \in DOMAIN gu.units :
                   \E i \in Having("ok") : gu.units[j].serial_number = serials[i]

C2_Witness ==
    /\ Joined
    /\ serials = <<"A", "B", "C">>
    /\ results[1].kind = "ok"
    /\ results[2].kind = "NotFoundError"
    /\ results[3].kind = "ok"
    /\ gu.status = "returned"
    /\ Len(gu.units) = 2

\* C3: when every one of the N >= 1 detail fetches yields NotFoundError,
\* get_units raises an ApiError (not a NotFoundError, not an empty list)
\* whose message says that all N units returned 404, N being the number of
\* identifiers.
C3_AllNotFoundRaises ==
    (Joined /\ Having("NotFoundError") = DOMAIN results) =>
        gu = Raised(Exc("ApiError", "all_404", Len(serials)))

C3_Witness ==
    /\ Joined
    /\ Len(serials) = 3
    /\ Having("NotFoundError") = {1, 2, 3}
    /\ gu.status = "raised"

\* C4: when the identifier list is not empty, no detail fetch succeeds, none
\* yields AuthError and at least one fails otherwise than by NotFoundError,
\* get_units raises the ApiError of total fetch failure, and the count it
\* reports is the number of failures other than NotFoundError.
C4_TotalFailureRaises ==
    (/\ Joined
     /\ Having("ok") = {}
     /\ Having("AuthError") = {}
     /\ Having("NotFoundError") # DOMAIN results) =>
        gu = Raised(Exc("ApiError", "fetch_failed",
                        Cardinality(DOMAIN results \ Having("NotFoundError"))))

C4_Witness ==
    /\ Joined
    /\ Len(results) = 3
    /\ results[1].kind = "ConnectionError"
    /\ results[2].kind = "NotFoundError"
    /\ results[3].kind = "KeyError"
    /\ gu.status = "raised"
    /\ gu.exc.n = 2

\* C5: when get_unit_serials returns an empty list, get_units returns an
\* empty list, raises nothing and issues no detail fetch.
C5_EmptyListReturnsEmpty ==
    (/\ gu.status # "running"
     /\ gu.exc.origin # "paired_units"
     /\ serials = <<>>) =>
        /\ gu = Returned(<<>>)
        /\ detail_requests = 0
        /\ results = <<>>

C5_Witness ==
    /\ pc = "idle"
    /\ serials = <<>>
    /\ gu.status = "returned"
    /\ signal = "success"
    /\ data_before # None

\* C6: whatever the order in which the server lists the identifiers within
\* and across pages, the list get_unit_serials returns is in ascending
\* order and holds every identifier exactly as often as it came in the
\* fetched pages, so it depends on what was fetched and not on its order.
C6_SerialsSorted ==
    pc = "listed" =>
        /\ Ascending(serials)
        /\ \A id \in Ids : Count(serials, id) = received[id]
        /\ \A i \in DOMAIN serials : serials[i] \in Ids

C6_Witness ==
    /\ pc = "listed"
    /\ all_serial_numbers = <<"C", "A", "B">>
    /\ asked = <<1, 2>>
    /\ serials = <<"A", "B", "C">>

\* C7: the list get_unit_serials returns holds no identifier more than once,
\* also when the server sent it twice within a page or on two pages.
C7_SerialsDeduplicated ==
    pc = "listed" =>
        \A i, j \in DOMAIN serials : i # j => serials[i] # serials[j]

\* C8: when no page carries a totalItems above 0 (the field is missing or
\* 0), get_unit_serials goes on requesting pages until a page without items
\* arrives, so that when its loop ends the server holds no further
\* non-empty page: the result is the complete set.
C8_ZeroTotalFetchesEveryPage ==
    (pc = "listed" /\ zero_total) => ~more_pages

\* C9: get_unit_serials ends after finitely many page requests for every
\* totalItems the server reports (0 and missing included): the pages
\* requested are 1, 2, 3, ... in this order, a further page is requested
\* only while the pages before it fall short of a reported total, and the
\* loop ends on an empty page or on the total being reached.
C9_PaginationTerminates ==
    /\ \A i \in DOMAIN asked : asked[i] = i
    /\ Len(asked) > 1 => (Len(asked) - 1) * Limit < MaxTotal
    /\ pc = "paging" => page = Len(asked) + 1
    /\ pc = "listed" => stop \in {"empty_page", "total_reached"} /\ page = Len(asked)

C9_Witness ==
    /\ pc = "listed"
    /\ asked = <<1, 2>>
    /\ stop = "total_reached"
    /\ ~zero_total

\* C10: when get_units raises AuthError during a refresh,
\* _async_update_data raises ConfigEntryAuthFailed and not UpdateFailed,
\* and coordinator.data is the mapping it was when the refresh began.
C10_AuthErrorIsReauth ==
    (gu.status = "raised" /\ gu.exc.kind = "AuthError") =>
        /\ signal = "ConfigEntryAuthFailed"
        /\ data = data_before

C10_Witness ==
    /\ signal = "ConfigEntryAuthFailed"
    /\ gu.exc.origin = "get_unit"
    /\ data # None
    /\ DOMAIN data = {"A", "B"}
    /\ Having("ok") # {}

\* C11: when get_units raises an ApiError that is not an AuthError (a plain
\* ApiError, a ConnectionError or a NotFoundError of the listing, or one of
\* the two aggregate errors), _async_update_data raises UpdateFailed and
\* coordinator.data is the mapping it was when the refresh began.
C11_ApiErrorIsUpdateFailed ==
    (/\ gu.status = "raised"
     /\ IsInstance(gu.exc.kind, "ApiError")
     /\ ~IsInstance(gu.exc.kind, "AuthError")) =>
        /\ signal = "UpdateFailed"
        /\ data = data_before

C11_Witness ==
    /\ signal = "UpdateFailed"
    /\ gu.exc.kind = "ConnectionError"
    /\ gu.exc.origin = "paired_units"
    /\ data # None
    /\ DOMAIN data = {"A", "C"}

\* C12: at every moment coordinator.data is the mapping of the most recent
\* successful refresh alone: its keys are exactly the serial numbers whose
\* snapshot that refresh retrieved, each key maps to the snapshot with that
\* serial number, and a unit of an earlier mapping that the refresh did not
\* retrieve is not a key.
C12_MappingIsLastSuccessfulCycle ==
    /\ data = None => retrieved = {} /\ signal # "success"
    /\ data # None =>
           /\ DOMAIN data = retrieved
           /\ \A sn \in DOMAIN data : data[sn].serial_number = sn
    /\ signal = "success" => retrieved = Fetched

C12_Witness ==
    /\ signal = "success"
    /\ data_before # None
    /\ DOMAIN data_before = {"A", "B"}
    /\ DOMAIN data = {"B", "C"}
    /\ Having("NotFoundError") # {}

\* the refresh has ended, its listing had succeeded and every detail fetch
\* either gave a snapshot or was not found; unit u of the previous mapping
\* is no longer listed, or its detail fetch was not found
ObservedRemoved(u) ==
    /\ pc = "idle"
    /\ signal # "none"
    /\ gu.status = "returned" \/ results # <<>>
    /\ \A i \in DOMAIN results : results[i].kind \in {"ok", "NotFoundError"}
    /\ data_before # None
    /\ u \in DOMAIN data_before
    /\ \A i \in DOMAIN serials : serials[i] = u => results[i].kind = "NotFoundError"

FetchesKept ==
    /\ (pc = "gather" \/ Joined) =>
           /\ Len(results) = Len(serials)
           /\ detail_requests = Len(serials)
    /\ Joined => \A i \in DOMAIN results : results[i] # Pending
    /\ \A i \in DOMAIN results :
           /\ results[i].kind = "ok" => results[i].unit.serial_number = serials[i]
           /\ results[i].kind \notin {"ok", "pending"} => results[i].exc.n = i
           /\ (pc = "gather" /\ results[i] = Pending) =>
                  ENABLED FetchDone(i, "200", "unit")

\* one step of get_units: the fetches are created together, an outcome once
\* collected is never replaced, one fetch ends at a time and no request is
\* added while gather waits
FetchesStep ==
    /\ (pc = "listed" /\ pc' = "gather") =>
           /\ DOMAIN results' = DOMAIN serials
           /\ \A i \in DOMAIN results' : results'[i] = Pending
    /\ pc = "gather" =>
           /\ detail_requests' = detail_requests
           /\ serials' = serials
           /\ \A i \in DOMAIN results :
                  results[i] # Pending => results'[i] = results[i]
           /\ Cardinality({i \in DOMAIN results : results'[i] # results[i]}) <= 1

\* C15: one get_units call over a list of N identifiers issues one detail
\* fetch per list entry, N in all and none again; all are created together
\* before any outcome is collected, the failure of one leaves the others
\* in flight, the classification starts when all N have ended, and each
\* outcome stays at the position of the identifier it was issued for.
C15_OneFetchPerIdentifier == [] FetchesKept /\ [][FetchesStep]_vars

C15_Witness ==
    /\ Joined
    /\ Len(serials) = 3
    /\ detail_requests = 3
    /\ results[1].kind = "ConnectionError"
    /\ results[2].kind = "ok"
    /\ results[3].kind = "ok"

(***************************************************************************)
(* One detail fetch from request to snapshot: get_unit, api.py:214-228,    *)
(* with _parse_unit field by field.                                        *)
(***************************************************************************)
FetchDetail(outcome, detail) ==
    /\ parsed = NotParsed
    /\ _request(outcome) # "ok" => detail = NoBody
    /\ _request(outcome) = "ok" => detail \in DetailBodies
    /\ parsed' = LET result == _request(outcome)
                 IN  IF result # "ok"
                         THEN [outcome |-> outcome, result |-> result,
                               data |-> detail, kind |-> result, unit |-> NoUnit]
                         ELSE [outcome |-> outcome, result |-> result,
                               data |-> detail, kind |-> ParseDetail(detail).kind,
                               unit |-> ParseDetail(detail).unit]
    /\ UNCHANGED <<paired_to, entry, reauth, flow, cycle, apart>>

\* the caller has taken what the fetch gave
Taken ==
    /\ parsed # NotParsed
    /\ parsed' = NotParsed
    /\ UNCHANGED <<paired_to, entry, reauth, flow, cycle, apart>>

Fetches ==
    /\ parsed = NotParsed
    /\ \E outcome \in HttpOutcomes, detail \in DetailBodies \cup {NoBody} :
           FetchDetail(outcome, detail)

DetailNext == Fetches \/ Taken

DetailSpec == Init /\ [][DetailNext]_vars

\* the statusMessages of the body last parsed
StatusMessages == Get(parsed.data, "statusMessages", <<>>)

C17_SnapshotCarriesStatusMessages ==
    parsed.kind = "ok" =>
        /\ "status_messages" \in DOMAIN parsed.unit
        /\ parsed.unit.status_messages = StatusMessages
        /\ parsed.unit.has_warning =>
               /\ extra_state_attributes("has_warning", parsed.unit).raised = "none"
               /\ extra_state_attributes("has_warning", parsed.unit).present

\* C18: the has_warning of a snapshot is true exactly when at least one
\* status message of the body has severity ERROR or WARNING; it is false
\* when the body has no statusMessages, when the list is empty and when
\* every message has another severity or none.
C18_HasWarningIffErrorOrWarning ==
    parsed.kind = "ok" =>
        (parsed.unit.has_warning <=>
            \E i \in DOMAIN StatusMessages :
                /\ "severity" \in DOMAIN StatusMessages[i]
                /\ StatusMessages[i].severity \in {"ERROR", "WARNING"})

C18_Witness ==
    /\ parsed.kind = "ok"
    /\ parsed.unit.has_warning
    /\ Len(StatusMessages) = 2
    /\ StatusMessages[1] = [type |-> "NO_FLOW", severity |-> "INFO"]
    /\ StatusMessages[2] = [type |-> "PH_LOW", severity |-> "WARNING"]

\* C19: a reauth step with a valid key of the account the entry was set up
\* for, whose validation went through, ends in reauth_successful with the
\* entry holding the new key, whatever units the account has by then.
C19_ReauthSameAccountSucceeds ==
    (/\ flow.step = "reauth_confirm"
     /\ Account(flow.api_key) \in Accounts
     /\ Account(flow.api_key) = flow.account_before
     /\ flow.unique_id # "None") =>
        /\ flow.result = "reauth_successful"
        /\ entry.api_key = flow.api_key

\* C20: a reauth step with a valid key of another account than the one the
\* entry was set up for shows the form again, with account_mismatch when
\* the validation went through, and leaves the entry's key alone; so does
\* a reauth step that ends in invalid_auth, cannot_connect or unknown.
C20_ReauthOtherAccountFails ==
    /\ (/\ flow.step = "reauth_confirm"
        /\ Account(flow.api_key) \in Accounts
        /\ flow.account_before \in Accounts
        /\ Account(flow.api_key) # flow.account_before) =>
           /\ flow.result = "form"
           /\ entry.api_key = flow.key_before
           /\ flow.unique_id # "None" => flow.errors = "account_mismatch"
    /\ (/\ flow.step = "reauth_confirm"
        /\ flow.errors \in {"invalid_auth", "cannot_connect", "unknown"}) =>
           /\ flow.result = "form"
           /\ entry.api_key = flow.key_before

\* C22 as stated: once a detail fetch has given AuthError, get_units does
\* not go on waiting for the fetches still in flight.
C22_AuthErrorAbortsJoin ==
    ~(/\ pc = "gather"
      /\ Having("AuthError") # {}
      /\ Having("pending") # {})

\* C22, amended: get_units waits for all N fetches in every case, the one
\* of an AuthError included: while a fetch is in flight get_units has not
\* ended, whatever has been collected, and when it raises the AuthError of
\* a fetch every fetch has ended.
C22_AuthErrorWaitsForAll ==
    /\ (pc = "gather" /\ Having("pending") # {}) =>
           gu = Running /\ signal = "none"
    /\ (/\ gu.status = "raised"
        /\ gu.exc.kind = "AuthError"
        /\ gu.exc.origin = "get_unit") =>
           /\ Having("pending") = {}
           /\ Len(results) = Len(serials)
           /\ gu.exc.n \in Having("AuthError")
           /\ \A i \in Having("AuthError") : gu.exc.n <= i

C22_Witness ==
    /\ gu.status = "raised"
    /\ gu.exc.kind = "AuthError"
    /\ gu.exc.n = 1
    /\ Len(results) = 3
    /\ results[2].kind = "ok"
    /\ results[3].kind = "ConnectionError"

\* C24: when a page request of get_unit_serials fails, on the first page or
\* a later one, no identifier list is returned, get_units raises that very
\* error with no detail fetch issued and no aggregate error in its place,
\* and _async_update_data maps it as it maps any AuthError or ApiError,
\* leaving coordinator.data as it was.
C24_PageFailureRaisesAsIs ==
    stop = "error" =>
        /\ pc = "idle"
        /\ serials = <<>>
        /\ results = <<>>
        /\ detail_requests = 0
        /\ gu.status = "raised"
        /\ gu.exc.origin = "paired_units"
        /\ gu.exc.n = page
        /\ gu.exc.kind \in {"AuthError", "NotFoundError", "ApiError", "ConnectionError"}
        /\ signal = IF gu.exc.kind = "AuthError" THEN "ConfigEntryAuthFailed"
                                                 ELSE "UpdateFailed"
        /\ data = data_before

C24_Witness ==
    /\ stop = "error"
    /\ page = 2
    /\ all_serial_numbers # <<>>
    /\ gu.exc.kind = "ConnectionError"
    /\ data # None
    /\ DOMAIN data = {"B"}

\* C27: get_units returns an empty list only when get_unit_serials gave no
\* identifier; with N >= 1 identifiers a returned list is not empty, and
\* when none of the N fetches gave a snapshot get_units raises an AuthError
\* or another ApiError.
C27_EmptyOnlyWhenNothingListed ==
    /\ (gu.status = "returned" /\ gu.units = <<>>) => serials = <<>>
    /\ (gu.status = "returned" /\ serials # <<>>) =>
           /\ gu.units # <<>>
           /\ Having("ok") # {}
    /\ (Joined /\ Having("ok") = {}) =>
           /\ gu.status = "raised"
           /\ IsInstance(gu.exc.kind, "ApiError")

C27_Witness ==
    /\ Joined
    /\ Len(serials) = 3
    /\ results[1].kind = "NotFoundError"
    /\ results[2].kind = "KeyError"
    /\ results[3].kind = "NotFoundError"
    /\ gu.exc.origin = "fetch_failed"

(***************************************************************************)
(* One call of get_unit_serials against a listing the server cuts into     *)
(* pages of its own size, api.py:134-157.                                  *)
(***************************************************************************)
\* the ways a server can cut a listing of at most room entries into pages
\* that are not empty and hold at most Limit entries each
RECURSIVE Splits(_)
Splits(room) ==
    {<<>>} \cup
    UNION {{<<items>> \o rest : rest \in Splits(room - Len(items))} :
               items \in {s \in PageItems : s # <<>> /\ Len(s) <= room}}

\* every page is answered with status 200 and reports totalItems
PagesOf(split, totalItems) ==
    [p \in DOMAIN split |-> Answer("200", split[p], totalItems, TRUE)]

ListAll(split, totalItems) ==
    /\ listing = NoListing
    /\ listing' = [answers |-> PagesOf(split, totalItems),
                   total   |-> totalItems,
                   result  |-> get_unit_serials(PagesOf(split, totalItems))]
    /\ UNCHANGED <<paired_to, entry, reauth, flow, parsed, cycle, platform>>

\* the caller has taken the list
ListingTaken ==
    /\ listing # NoListing
    /\ listing' = NoListing
    /\ UNCHANGED <<paired_to, entry, reauth, flow, parsed, cycle, platform>>

Lists ==
    /\ listing = NoListing
    /\ \E split \in Splits(MaxUnits), totalItems \in 0..MaxTotal :
           ListAll(split, totalItems)

PagingNext == Lists \/ ListingTaken

PagingSpec == Init /\ [][PagingNext]_vars

\* the running count of identifiers after the first p pages of the listing
RECURSIVE RunningCount(_, _)
RunningCount(answers, p) ==
    IF p = 0 THEN 0 ELSE RunningCount(answers, p - 1) + Len(answers[p].items)

\* the pages requested when a further page is requested exactly while the
\* running count is below the reported total: up to the first page at which
\* the count has reached the total, and past the last page (to an empty
\* one) when it never does
PagesByRunningCount(answers, total) ==
    LET met == {p \in DOMAIN answers : RunningCount(answers, p) >= total}
    IN  IF met = {} THEN Len(answers)
        ELSE CHOOSE p \in met : \A q \in met : p <= q

\* C23 as stated: after a page that is not empty the next page is requested
\* exactly when the running count of identifiers is below the reported
\* total, so that with pages shorter than the limit every identifier up to
\* the total is in the returned list.
C23_StopsOnRunningCount ==
    listing # NoListing =>
        /\ listing.result.status = "returned"
        /\ Len(listing.result.serials) =
               RunningCount(listing.answers,
                            PagesByRunningCount(listing.answers, listing.total))

(***************************************************************************)
(* The entity platforms under the coordinator's refreshes.  The platforms  *)
(* are set up once the first refresh has given a mapping; from then on     *)
(* every successful refresh replaces the mapping and calls the listeners,  *)
(* and a failed one leaves the mapping and clears last_update_success.     *)
(***************************************************************************)
\* both platforms' listeners run over the mapping just exposed
Notify(mapping) ==
    /\ known_units' =
           [p \in Platforms |->
               _async_add_new_entities(p, mapping, known_units[p],
                                       entities[p]).known_units]
    /\ entities' =
           [p \in Platforms |->
               _async_add_new_entities(p, mapping, known_units[p],
                                       entities[p]).entities]
    /\ gone' = gone \cup (known_units["sensor"] \ DOMAIN mapping)

\* async_setup_entry of both platforms, over the data of the first refresh
async_setup_entry(mapping) ==
    /\ ~loaded
    /\ loaded' = TRUE
    /\ exposed' = mapping
    /\ last_update_success' = TRUE
    /\ Notify(mapping)
    /\ UNCHANGED <<paired_to, entry, reauth, flow, parsed, cycle, listing>>

RefreshSucceeds(mapping) ==
    /\ loaded
    /\ exposed' = mapping
    /\ last_update_success' = TRUE
    /\ Notify(mapping)
    /\ UNCHANGED <<paired_to, entry, reauth, flow, parsed, cycle, listing, loaded>>

RefreshFails ==
    /\ loaded
    /\ last_update_success' = FALSE
    /\ UNCHANGED <<paired_to, entry, reauth, flow, parsed, cycle, listing,
                   loaded, exposed, known_units, entities, gone>>

SetsUp == \E mapping \in Mappings : async_setup_entry(mapping)

Refreshes == \E mapping \in Mappings : RefreshSucceeds(mapping)

EntityNext == SetsUp \/ Refreshes \/ RefreshFails

EntitySpec == Init /\ [][EntityNext]_vars

\* variant of AsekoSensorEntity_available: the coordinator's flag alone
CoordinatorAvailable(sn) == last_update_success

\* sensor.py:214-217; super().available is the coordinator's
\* last_update_success
AsekoSensorEntity_available(sn) ==
    last_update_success /\ sn \in DOMAIN exposed

\* sensor.py:199-212
native_value(sn, d) ==
    IF sn \notin DOMAIN exposed THEN PyNone
    ELSE IF d.status_key \notin DOMAIN exposed[sn].status_values THEN PyNone
    ELSE _parse_float(exposed[sn].status_values[d.status_key])

\* binary_sensor.py:174-179
AsekoBinarySensorEntity_available(sn, d) ==
    IF ~last_update_success \/ sn \notin DOMAIN exposed THEN FALSE
    ELSE available_fn(d, exposed[sn])

\* binary_sensor.py:167-172
is_on(sn, d) ==
    IF sn \notin DOMAIN exposed THEN PyNone
    ELSE IF d.value_fn = "online"
        THEN PyValue("bool", IF exposed[sn].online THEN "True" ELSE "False")
    ELSE _parse_bool_status(exposed[sn].status_values, d.status_key)

\* the entities a platform has made
Made(p) ==
    {e \in Pools \X Descriptions(p) : entities[p][unique_id(e[1], e[2].key)] > 0}

\* C25 as stated: after a successful refresh notification every unit of
\* the mapping has an entity for every declared description whose status
\* key is in its current statusValues, also when the key was not there
\* when the unit was first seen.
C25_EntityForEveryPresentKey ==
    (loaded /\ last_update_success) =>
        \A p \in Platforms, sn \in DOMAIN exposed :
            \A d \in Descriptions(p) :
                Offers(p, d, exposed[sn]) => <<sn, d>> \in Made(p)

\* C28: over the refresh notifications each platform makes the entities of
\* a serial number at most once: known_units only grows, an entity is made
\* only for a unit that was not known before the notification, and no
\* unique id is ever handed to async_add_entities twice, also when a unit
\* has left the mapping and come back.
C28_EntitiesMadeOnce ==
    [][\A p \in Platforms :
           /\ known_units[p] \subseteq known_units'[p]
           /\ \A sn \in Pools, d \in Descriptions(p) :
                  LET uid == unique_id(sn, d.key)
                  IN  /\ entities'[p][uid] <= 1
                      /\ entities'[p][uid] >= entities[p][uid]
                      /\ entities'[p][uid] > entities[p][uid] =>
                             /\ sn \notin known_units[p]
                             /\ sn \in known_units'[p]]_vars

C28_Witness ==
    /\ "A" \in gone
    /\ "A" \in DOMAIN exposed
    /\ "ph" \in DOMAIN exposed["A"].status_values
    /\ entities["sensor"]["A_ph"] = 1
    /\ entities["binary_sensor"]["A_online"] = 1

\* C29: an entity whose unit is not a key of the current mapping is
\* unavailable and gives no value; a sensor entity is available exactly
\* when the last refresh succeeded and its unit is in the mapping, a binary
\* sensor entity exactly when in addition the snapshot has its status key;
\* so an entity is available again once its unit is back in a successful
\* refresh.
C29_Availability ==
    /\ \A e \in Made("sensor") :
           /\ e[1] \notin DOMAIN exposed =>
                  /\ ~AsekoSensorEntity_available(e[1])
                  /\ native_value(e[1], e[2]) = PyNone
           /\ AsekoSensorEntity_available(e[1]) <=>
                  (last_update_success /\ e[1] \in DOMAIN exposed)
    /\ \A e \in Made("binary_sensor") :
           /\ e[1] \notin DOMAIN exposed =>
                  /\ ~AsekoBinarySensorEntity_available(e[1], e[2])
                  /\ is_on(e[1], e[2]) = PyNone
           /\ AsekoBinarySensorEntity_available(e[1], e[2]) <=>
                  /\ last_update_success
                  /\ e[1] \in DOMAIN exposed
                  /\ \/ e[2].status_key = ""
                     \/ e[2].status_key \in DOMAIN exposed[e[1]].status_values

C29_Witness ==
    /\ "A" \in gone
    /\ "A" \in DOMAIN exposed
    /\ last_update_success
    /\ <<"A", Description("ph", "ph", "_parse_float")>> \in Made("sensor")
    /\ AsekoSensorEntity_available("A")
    /\ "B" \in known_units["binary_sensor"]
    /\ "B" \notin DOMAIN exposed
    /\ ~AsekoBinarySensorEntity_available("B", Description("online", "", "online"))

\* C21: a detail body with serialNumber gives a snapshot whatever optional
\* fields it lacks: a missing online gives false, a missing name, note or
\* brandName gives None, a missing statusValues gives the empty dict, a
\* missing statusMessages gives has_warning false, and a field that is
\* there is taken over; parsing fails only for a body without
\* serialNumber, with KeyError.
C21_OnlySerialNumberRequired ==
    parsed.result = "ok" =>
        /\ parsed.kind \in {"ok", "KeyError"}
        /\ parsed.kind = "ok" <=> "serialNumber" \in DOMAIN parsed.data
        /\ parsed.kind = "ok" =>
               /\ parsed.unit.serial_number = parsed.data["serialNumber"]
               /\ parsed.unit.name = Get(parsed.data, "name", "None")
               /\ parsed.unit.note = Get(parsed.data, "note", "None")
               /\ parsed.unit.online = Get(parsed.data, "online", FALSE)
               /\ "brandName" \notin DOMAIN parsed.data =>
                      parsed.unit.brand_name = "None"
               /\ "statusValues" \notin DOMAIN parsed.data =>
                      DOMAIN parsed.unit.status_values = {}
               /\ "statusValues" \in DOMAIN parsed.data =>
                      parsed.unit.status_values = parsed.data["statusValues"]
               /\ "statusMessages" \notin DOMAIN parsed.data =>
                      ~parsed.unit.has_warning

C21_Witness ==
    /\ parsed.kind = "ok"
    /\ DOMAIN parsed.data = {"serialNumber"}
    /\ parsed.unit.serial_number = "A"
    /\ parsed.unit.name = "None"
    /\ ~parsed.unit.online

\* the serial numbers of the account of the key the flow step was given
FlowUnits == {u \in Ids : paired_to[u] = Account(flow.api_key)}

\* C26: _validate_api_key gives either a unique_id and no error or no
\* unique_id and one error: invalid_auth for a key that is not valid or an
\* AuthError, cannot_connect for another ApiError, unknown for any other
\* exception.  The unique_id is the smallest serial number of the account,
\* or 'aseko_' and the hash of the key when the account has no unit, and
\* async_step_user creates an entry, with that key and unique_id, only
\* when there is a unique_id and no error.
C26_ValidationResult ==
    flow.step = "user" =>
        /\ \/ flow.unique_id # "None" /\ flow.errors = "" /\ flow.caught = "none"
           \/ /\ flow.unique_id = "None"
              /\ flow.caught # "none"
              /\ flow.errors =
                     CASE flow.caught \in {"not_valid", "AuthError"} -> "invalid_auth"
                       [] flow.caught \in {"ApiError", "NotFoundError",
                                           "ConnectionError"} -> "cannot_connect"
                       [] OTHER -> "unknown"
        /\ flow.unique_id # "None" =>
               /\ Account(flow.api_key) \in Accounts
               /\ FlowUnits # {} =>
                      /\ flow.unique_id \in FlowUnits
                      /\ \A u \in FlowUnits : Rank(flow.unique_id) <= Rank(u)
               /\ FlowUnits = {} =>
                      flow.unique_id = "aseko_" \o _stable_hash(flow.api_key)
        /\ flow.result = "create_entry" =>
               /\ flow.unique_id # "None"
               /\ flow.errors = ""
               /\ flow.key_before = "none"
               /\ entry.api_key = flow.api_key
               /\ entry.unique_id = flow.unique_id
        /\ flow.unique_id = "None" =>
               /\ flow.result = "form"
               /\ entry.api_key = flow.key_before

C26_Witness ==
    /\ flow.step = "user"
    /\ flow.result = "create_entry"
    /\ flow.unique_id = "A"
    /\ FlowUnits = {"A", "B", "C"}

====
